---- MODULE Spec2Model ----
(***************************************************************************)
(* Planning-poker room synchronisation core of src/src/main.rs: the room   *)
(* registry, the connection lifecycle (admission, read loop, retirement),  *)
(* the command dispatcher client_msg, the vote visibility policy           *)
(* compute_votes and the three broadcast functions.                        *)
(***************************************************************************)
EXTENDS Integers, Sequences, FiniteSets, TLC

VARIABLES
    rooms,      \* RoomsRef: the registry HashMap<RoomUuid, Room>
    conns,      \* one record per client_connection task (its locals and position)
    chan,       \* the mpsc channel created by each connection (line 406)
    inbox,      \* frames that arrived on each connection's stream, not yet read
    lock,       \* holder of the registry RwLock's write guard (0: free)
    storyUuids, \* number of StoryUuid values new_uuid() has produced
    userUuids,  \* number of pub_user_uuid values new_uuid() has produced
    lastStories,\* history: the Stories view last enqueued on each channel
    origin      \* history: which frame's handler enqueued each message

vars == <<rooms, conns, chan, inbox, lock, storyUuids, userUuids, lastStories,
          origin>>

----------------------------------------------------------------------------
(* Bounds of the model and the input alphabets.                            *)

MaxStoryUuid == 1      \* stories ever created (new_uuid calls for stories)
MaxFrames == 2         \* frames that arrive on one connection (SpecConc)
MaxLiveFrames == 1     \* frames that arrive on one connection (SpecLive)
MaxBatch == 1          \* longest story list of one add-stories frame
MaxBacklog == 0        \* queued messages a forwarder is behind when a handler runs

UserIds == {"ua", "ub", "uc"}  \* UserToken values of the connection path
TwoUsers == {"ua", "ub"}
RoomIds == {"r1", "r2"}        \* RoomToken values of the connection path
Conns == {1, 2}                \* connection tasks alive at the same time
NoneId == 0                    \* Option::None of an id or of a sender

----------------------------------------------------------------------------
(* Data model.                                                             *)

\* enum Vote
Value(n) == [tag |-> "Value", value |-> n]
Coffee == [tag |-> "Coffee", value |-> 0]
Question == [tag |-> "Question", value |-> 0]
Hidden == [tag |-> "Hidden", value |-> 0]

\* enum UserRole
UserRole == {"Voter", "Watcher"}

\* Uuid::new_v4(): a value no earlier call returned; the n-th call returns n
new_uuid(n) == n + 1

\* the empty HashMap
EmptyMap == [k \in {} |-> 0]

\* HashMap::insert / entry().or_insert
Insert(m, k, v) == [x \in DOMAIN m \cup {k} |-> IF x = k THEN v ELSE m[x]]

\* User::new
User_new(user_uuid, pub) ==
    [user_uuid |-> user_uuid,
     pub_user_uuid |-> pub,
     user_name |-> "",
     role |-> "Voter",
     is_active |-> TRUE,
     sender |-> NoneId]

\* Room::new (creation_time is not modelled: no operation reads it but config)
Room_new ==
    [users |-> EmptyMap,
     stories |-> <<>>,
     owner |-> NoneId,
     active_story |-> NoneId]

\* the Story pushed by the stories command
Story_new(uuid, item) ==
    [story_uuid |-> uuid,
     story_url |-> item.story_url,
     story_description |-> item.story_description,
     state |-> "Voting",
     votes |-> EmptyMap]

----------------------------------------------------------------------------
(* Outbound channel: an unbounded queue, closed once its receiver is gone. *)

\* mpsc::unbounded_channel()
NewChannel == [open |-> TRUE, queue |-> <<>>]

\* a bounded channel of capacity one would make send wait for room
SendReady_bounded(ch) == Len(ch.queue) < 1

\* UnboundedSender::send never waits for room in the queue
SendReady(ch) == TRUE

\* UnboundedSender::send: Err (logged, ignored) once closed
Send(ch, msg) ==
    IF ch.open THEN [ch EXCEPT !.queue = Append(@, msg)] ELSE ch

----------------------------------------------------------------------------
(* Vote visibility policy and the three views.                             *)

\* compute_votes that counts inactive Voters among those still to vote
compute_votes_counts_inactive(story, users, current_pub_user_id) ==
    LET finished ==
            IF story.state = "Finished" THEN TRUE
            ELSE ~ \E k \in DOMAIN users :
                     /\ users[k].role = "Voter"
                     /\ users[k].pub_user_uuid \notin DOMAIN story.votes
    IN  IF finished THEN story.votes
        ELSE [k \in DOMAIN story.votes |->
                 IF k = current_pub_user_id THEN story.votes[k] ELSE Hidden]

compute_votes(story, users, current_pub_user_id) ==
    LET finished ==
            IF story.state = "Finished" THEN TRUE
            ELSE ~ \E k \in DOMAIN users :
                     /\ users[k].role = "Voter"
                     /\ users[k].is_active
                     /\ users[k].pub_user_uuid \notin DOMAIN story.votes
    IN  IF finished THEN story.votes
        ELSE [k \in DOMAIN story.votes |->
                 IF k = current_pub_user_id THEN story.votes[k] ELSE Hidden]

StoryUpdateMessage(s, users, pub) ==
    [story_uuid |-> s.story_uuid,
     story |-> [story_url |-> s.story_url,
                story_description |-> s.story_description],
     state |-> s.state,
     votes |-> compute_votes(s, users, pub)]

StoriesUpdateMessage(room, user) ==
    [kind |-> "stories",
     stories |-> [i \in 1..Len(room.stories) |->
                     StoryUpdateMessage(room.stories[i], room.users,
                                        user.pub_user_uuid)],
     active_story |-> room.active_story]

\* a roster entry that carries the key of the users map
UserUpdateMessage_by_token(u, user) ==
    [pub_user_uuid |-> u.user_uuid,
     user_name |-> u.user_name,
     role |-> u.role,
     is_this |-> user.user_uuid = u.user_uuid,
     is_active |-> u.is_active]

UserUpdateMessage(u, user) ==
    [pub_user_uuid |-> u.pub_user_uuid,
     user_name |-> u.user_name,
     role |-> u.role,
     is_this |-> (user.user_uuid = u.user_uuid),
     is_active |-> u.is_active]

\* room.users.iter() has no fixed order: the list is modelled as a set
\* a roster of the active users only
UsersUpdateMessage_active_only(room, user) ==
    [kind |-> "users",
     users |-> {UserUpdateMessage(room.users[k], user) :
                   k \in {x \in DOMAIN room.users : room.users[x].is_active}}]

UsersUpdateMessage(room, user) ==
    [kind |-> "users",
     users |-> {UserUpdateMessage(room.users[k], user) : k \in DOMAIN room.users}]

RoomConfigMessage(user, owner) ==
    [kind |-> "config", owner |-> owner, me |-> user.pub_user_uuid]

\* the users of the room whose sender is the channel of connection c
Attached(room, c) == {k \in DOMAIN room.users : room.users[k].sender = c}

send_users_update_message(room, ch) ==
    [c \in DOMAIN ch |->
        IF Attached(room, c) = {} THEN ch[c]
        ELSE Send(ch[c], UsersUpdateMessage(room,
                     room.users[CHOOSE k \in Attached(room, c) : TRUE]))]

\* a Stories broadcast given up when a send fails
send_stories_update_message_all_or_none(room, ch) ==
    IF \E c \in DOMAIN ch : Attached(room, c) # {} /\ ~ch[c].open THEN ch
    ELSE [c \in DOMAIN ch |->
            IF Attached(room, c) = {} THEN ch[c]
            ELSE Send(ch[c], StoriesUpdateMessage(room,
                        room.users[CHOOSE k \in Attached(room, c) : TRUE]))]

send_stories_update_message(room, ch) ==
    [c \in DOMAIN ch |->
        IF Attached(room, c) = {} THEN ch[c]
        ELSE Send(ch[c], StoriesUpdateMessage(room,
                     room.users[CHOOSE k \in Attached(room, c) : TRUE]))]

send_config_message(user, owner, ch) ==
    IF user.sender = NoneId THEN ch
    ELSE [ch EXCEPT ![user.sender] = Send(@, RoomConfigMessage(user, owner))]

\* the broadcast a handler ends with
Broadcast(kind, room, ch) ==
    CASE kind = "users" -> send_users_update_message(room, ch)
      [] kind = "stories" -> send_stories_update_message(room, ch)
      [] OTHER -> ch

----------------------------------------------------------------------------
(* Inbound frames, as decoded by client_msg: the command word the text     *)
(* starts with and what serde_json makes of the rest.                       *)

Frame(word, ok, story_uuid, vote, user_name, role, stories) ==
    [word |-> word,             \* "binary": msg.to_str() fails; "other": no known prefix
     ok |-> ok,                 \* serde_json::from_str returned Ok
     story_uuid |-> story_uuid,
     vote |-> vote,
     user_name |-> user_name,
     role |-> role,
     stories |-> stories]

NoFrame == Frame("none", FALSE, NoneId, Hidden, "", "Voter", <<>>)
Bare(word, ok) == Frame(word, ok, NoneId, Hidden, "", "Voter", <<>>)
UserFrame(name, role) == Frame("user", TRUE, NoneId, Hidden, name, role, <<>>)
StoriesFrame(items) == Frame("stories", TRUE, NoneId, Hidden, "", "Voter", items)
StoryFrame(word, sid) == Frame(word, TRUE, sid, Hidden, "", "Voter", <<>>)
VoteFrame(sid, vote) == Frame("vote", TRUE, sid, vote, "", "Voter", <<>>)

\* index of the first story with this uuid, 0 when there is none (Iterator::find)
FindStory(stories, uuid) ==
    LET hits == {i \in 1..Len(stories) : stories[i].story_uuid = uuid}
    IN  IF hits = {} THEN 0 ELSE CHOOSE i \in hits : \A j \in hits : i <= j

\* Vec::retain(|s| s.story_uuid != uuid)
RECURSIVE Retain(_, _)
Retain(stories, uuid) ==
    IF stories = <<>> THEN <<>>
    ELSE IF Head(stories).story_uuid = uuid THEN Retain(Tail(stories), uuid)
    ELSE <<Head(stories)>> \o Retain(Tail(stories), uuid)

\* the for loop of the stories command: one push, one new_uuid per item
RECURSIVE PushStories(_, _, _)
PushStories(stories, items, uu) ==
    IF items = <<>> THEN stories
    ELSE PushStories(Append(stories, Story_new(new_uuid(uu), Head(items))),
                     Tail(items), uu + 1)

\* what a handler leaves behind: the room, the broadcast that follows, the uuids used
Outcome(room, bcast, uu) == [room |-> room, bcast |-> bcast, uuids |-> uu]

\* the user command sending the roster also when the payload did not decode
cmd_user_sends_on_error(room, user_id, m, uu) ==
    Outcome(
        IF m.ok /\ user_id \in DOMAIN room.users
        THEN [room EXCEPT !.users[user_id].user_name = m.user_name,
                          !.users[user_id].role = m.role]
        ELSE room,
        "users", uu)

cmd_user(room, user_id, m, uu) ==
    IF ~m.ok THEN Outcome(room, "none", uu)
    ELSE Outcome(
            IF user_id \in DOMAIN room.users
            THEN [room EXCEPT !.users[user_id].user_name = m.user_name,
                              !.users[user_id].role = m.role]
            ELSE room,
            "users", uu)

cmd_stories(room, m, uu) ==
    IF ~m.ok THEN Outcome(room, "none", uu)
    ELSE Outcome([room EXCEPT !.stories = PushStories(@, m.stories, uu)],
                 "stories", uu + Len(m.stories))

\* remove_story that sends without comparing the lengths
cmd_remove_story_always_sends(room, pub_user_uuid, m, uu) ==
    IF room.owner # pub_user_uuid THEN Outcome(room, "none", uu)
    ELSE IF ~m.ok THEN Outcome(room, "none", uu)
    ELSE Outcome([room EXCEPT !.stories = Retain(@, m.story_uuid)], "stories", uu)

cmd_remove_story(room, pub_user_uuid, m, uu) ==
    IF room.owner # pub_user_uuid THEN Outcome(room, "none", uu)
    ELSE IF ~m.ok THEN Outcome(room, "none", uu)
    ELSE LET kept == Retain(room.stories, m.story_uuid)
         IN  Outcome([room EXCEPT !.stories = kept],
                     IF Len(kept) # Len(room.stories) THEN "stories" ELSE "none",
                     uu)

\* the vote command without its check of the story's state
cmd_vote_any_state(room, user_id, m, uu) ==
    IF ~m.ok THEN Outcome(room, "none", uu)
    ELSE LET i == FindStory(room.stories, m.story_uuid)
         IN  IF i = 0 THEN Outcome(room, "none", uu)
             ELSE IF user_id \notin DOMAIN room.users THEN Outcome(room, "none", uu)
             ELSE Outcome(
                    [room EXCEPT !.stories[i].votes =
                        Insert(@, room.users[user_id].pub_user_uuid, m.vote)],
                    "stories", uu)

\* the vote command keeping an entry the user already has
cmd_vote_keeps_first(room, user_id, m, uu) ==
    IF ~m.ok THEN Outcome(room, "none", uu)
    ELSE LET i == FindStory(room.stories, m.story_uuid)
         IN  IF i = 0 THEN Outcome(room, "none", uu)
             ELSE IF room.stories[i].state # "Voting" THEN Outcome(room, "none", uu)
             ELSE IF user_id \notin DOMAIN room.users THEN Outcome(room, "none", uu)
             ELSE Outcome(
                    [room EXCEPT !.stories[i].votes =
                        IF room.users[user_id].pub_user_uuid \in DOMAIN @ THEN @
                        ELSE Insert(@, room.users[user_id].pub_user_uuid, m.vote)],
                    "stories", uu)

cmd_vote(room, user_id, m, uu) ==
    IF ~m.ok THEN Outcome(room, "none", uu)
    ELSE LET i == FindStory(room.stories, m.story_uuid)
         IN  IF i = 0 THEN Outcome(room, "none", uu)
             ELSE IF room.stories[i].state # "Voting" THEN Outcome(room, "none", uu)
             ELSE IF user_id \notin DOMAIN room.users THEN Outcome(room, "none", uu)
             ELSE Outcome(
                    [room EXCEPT !.stories[i].votes =
                        Insert(@, room.users[user_id].pub_user_uuid, m.vote)],
                    "stories", uu)

\* the finish command without its owner check
cmd_finish_by_anyone(room, pub_user_uuid, m, uu) ==
    IF ~m.ok THEN Outcome(room, "none", uu)
    ELSE LET i == FindStory(room.stories, m.story_uuid)
         IN  IF i = 0 THEN Outcome(room, "none", uu)
             ELSE Outcome([room EXCEPT !.stories[i].state = "Finished"],
                          "stories", uu)

cmd_finish(room, pub_user_uuid, m, uu) ==
    IF room.owner # pub_user_uuid THEN Outcome(room, "none", uu)
    ELSE IF ~m.ok THEN Outcome(room, "none", uu)
    ELSE LET i == FindStory(room.stories, m.story_uuid)
         IN  IF i = 0 THEN Outcome(room, "none", uu)
             ELSE Outcome([room EXCEPT !.stories[i].state = "Finished"],
                          "stories", uu)

cmd_active_story(room, pub_user_uuid, m, uu) ==
    IF room.owner # pub_user_uuid THEN Outcome(room, "none", uu)
    ELSE IF ~m.ok THEN Outcome(room, "none", uu)
    ELSE Outcome([room EXCEPT !.active_story = m.story_uuid], "stories", uu)

\* the body of client_msg once the room is found (lines 296-397)
client_msg(room, user_id, pub_user_uuid, m, uu) ==
    CASE m.word = "user" -> cmd_user(room, user_id, m, uu)
      [] m.word = "stories" -> cmd_stories(room, m, uu)
      [] m.word = "remove_story" -> cmd_remove_story(room, pub_user_uuid, m, uu)
      [] m.word = "vote" -> cmd_vote(room, user_id, m, uu)
      [] m.word = "finish" -> cmd_finish(room, pub_user_uuid, m, uu)
      [] m.word = "active_story" -> cmd_active_story(room, pub_user_uuid, m, uu)
      [] OTHER -> Outcome(room, "none", uu)

\* frames that return before the registry lock is taken (lines 286-293)
SkipsLock(m) == m.word \in {"binary", "ping"}

----------------------------------------------------------------------------
(* Admission and retirement of client_connection.                          *)

\* admission that inserts a new User instead of entry().or_insert_with
admit_always_new(rs, c, user_id, room_id, uu) ==
    LET room0 == IF room_id \in DOMAIN rs THEN rs[room_id] ELSE Room_new
        user1 == [User_new(user_id, new_uuid(uu)) EXCEPT !.sender = c]
        room1 == [room0 EXCEPT
                    !.users = Insert(@, user_id, user1),
                    !.owner = IF @ = NoneId THEN user1.pub_user_uuid ELSE @]
    IN  [rooms |-> Insert(rs, room_id, room1),
         pub_user_uuid |-> user1.pub_user_uuid,
         uuids |-> uu + 1]

\* admission that makes every admitted user the owner
admit_owner_follows(rs, c, user_id, room_id, uu) ==
    LET room0 == IF room_id \in DOMAIN rs THEN rs[room_id] ELSE Room_new
        fresh == user_id \notin DOMAIN room0.users
        user0 == IF fresh THEN User_new(user_id, new_uuid(uu))
                 ELSE room0.users[user_id]
        user1 == [user0 EXCEPT !.sender = c, !.is_active = TRUE]
        room1 == [room0 EXCEPT
                    !.users = Insert(@, user_id, user1),
                    !.owner = user1.pub_user_uuid]
    IN  [rooms |-> Insert(rs, room_id, room1),
         pub_user_uuid |-> user1.pub_user_uuid,
         uuids |-> IF fresh THEN uu + 1 ELSE uu]

\* lines 403 and 415-426: get-or-create room and user, attach, owner
admit(rs, c, user_id, room_id, uu) ==
    LET room0 == IF room_id \in DOMAIN rs THEN rs[room_id] ELSE Room_new
        fresh == user_id \notin DOMAIN room0.users
        user0 == IF fresh THEN User_new(user_id, new_uuid(uu))
                 ELSE room0.users[user_id]
        user1 == [user0 EXCEPT !.sender = c, !.is_active = TRUE]
        room1 == [room0 EXCEPT
                    !.users = Insert(@, user_id, user1),
                    !.owner = IF @ = NoneId THEN user1.pub_user_uuid ELSE @]
    IN  [rooms |-> Insert(rs, room_id, room1),
         pub_user_uuid |-> user1.pub_user_uuid,
         uuids |-> IF fresh THEN uu + 1 ELSE uu]

\* the three sends with the stories sent before the roster
initial_sync_stories_first(room, user_id, ch) ==
    send_users_update_message(room,
        send_stories_update_message(room,
            send_config_message(room.users[user_id], room.owner, ch)))

\* lines 430-432: config to the new connection, roster and stories to the room
initial_sync(room, user_id, ch) ==
    send_stories_update_message(room,
        send_users_update_message(room,
            send_config_message(room.users[user_id], room.owner, ch)))

\* retirement that removes the User record
retire_removes_user(rs, user_id, room_id) ==
    IF room_id \notin DOMAIN rs THEN rs
    ELSE [rs EXCEPT ![room_id].users =
             [k \in DOMAIN @ \ {user_id} |-> @[k]]]

\* retirement that detaches the user token in every room
retire_in_every_room(rs, user_id, room_id) ==
    [r \in DOMAIN rs |->
        IF user_id \notin DOMAIN rs[r].users THEN rs[r]
        ELSE [rs[r] EXCEPT !.users[user_id].is_active = FALSE,
                           !.users[user_id].sender = NoneId]]

\* lines 448-452
retire(rs, user_id, room_id) ==
    IF room_id \notin DOMAIN rs THEN rs
    ELSE IF user_id \notin DOMAIN rs[room_id].users THEN rs
    ELSE [rs EXCEPT ![room_id].users[user_id].is_active = FALSE,
                    ![room_id].users[user_id].sender = NoneId]

----------------------------------------------------------------------------
(* State of a connection task.                                             *)

ConnClosed ==
    [pc |-> "closed",            \* position of the task in client_connection
     user_id |-> "",
     room_id |-> "",
     pub_user_uuid |-> NoneId,
     cur |-> NoFrame,             \* the frame client_msg is working on
     bcast |-> "none",            \* the broadcast its mutation asked for
     snap |-> EmptyMap,           \* history: the registry as its mutation left it
     nread |-> 0,                 \* history: arrival number of the frame last read
     narr |-> 0,                  \* history: frames that arrived so far
     eof |-> FALSE]               \* the stream has ended or failed

ConnOpen(user_id, room_id, pub) ==
    [ConnClosed EXCEPT !.pc = "read", !.user_id = user_id, !.room_id = room_id,
                       !.pub_user_uuid = pub]

----------------------------------------------------------------------------
(* The handlers as single steps: each holds the registry write lock from   *)
(* its first read of the room to its last send.                            *)

\* client_connection, lines 402-434. A connection slot is free once the
\* earlier connection's forwarder has delivered what was queued.
AdmitConnection(c, user_id, room_id) ==
    /\ conns[c].pc = "closed"
    /\ chan[c].queue = <<>>
    /\ LET a == admit(rooms, c, user_id, room_id, userUuids)
       IN  /\ rooms' = a.rooms
           /\ userUuids' = a.uuids
           /\ conns' = [conns EXCEPT ![c] =
                            ConnOpen(user_id, room_id, a.pub_user_uuid)]
           /\ chan' = initial_sync(a.rooms[room_id], user_id,
                                   [chan EXCEPT ![c] = NewChannel])
    /\ UNCHANGED <<inbox, lock, storyUuids, origin>>

\* one turn of the read loop (lines 436-446) with client_msg (lines 284-399)
ClientMsg(c, m) ==
    /\ conns[c].pc = "read"
    /\ IF SkipsLock(m) \/ conns[c].room_id \notin DOMAIN rooms
       THEN UNCHANGED <<rooms, chan, storyUuids>>
       ELSE LET r == conns[c].room_id
                res == client_msg(rooms[r], conns[c].user_id,
                                  conns[c].pub_user_uuid, m, storyUuids)
            IN  /\ rooms' = [rooms EXCEPT ![r] = res.room]
                /\ storyUuids' = res.uuids
                /\ chan' = Broadcast(res.bcast, res.room, chan)
    /\ UNCHANGED <<conns, inbox, lock, userUuids, origin>>

\* client_connection, lines 448-457, once the stream has ended
RetireConnection(c) ==
    /\ conns[c].pc = "read"
    /\ LET r == conns[c].room_id
           rs == retire(rooms, conns[c].user_id, r)
       IN  /\ rooms' = rs
           /\ chan' = IF r \in DOMAIN rs
                      THEN send_users_update_message(rs[r], chan) ELSE chan
    /\ conns' = [conns EXCEPT ![c] = ConnClosed]
    /\ UNCHANGED <<inbox, lock, storyUuids, userUuids, origin>>

\* the forwarder task (line 409) writes the oldest queued message to the socket
Forward(c) ==
    /\ chan[c].open
    /\ chan[c].queue # <<>>
    /\ chan' = [chan EXCEPT ![c].queue = Tail(@)]
    /\ UNCHANGED <<rooms, conns, inbox, lock, storyUuids, userUuids, origin>>

\* the forwarder ends on a socket write error: the receiver and what it
\* still held are dropped
ForwarderFail(c) ==
    /\ chan[c].open
    /\ chan' = [chan EXCEPT ![c] = [open |-> FALSE, queue |-> <<>>]]
    /\ UNCHANGED <<rooms, conns, inbox, lock, storyUuids, userUuids, origin>>

----------------------------------------------------------------------------
(* History of what was enqueued.                                           *)

NoMsg == [kind |-> "none"]

\* the messages a step appended to a queue
NewMsgs(q0, q1) ==
    IF Len(q1) > Len(q0) THEN SubSeq(q1, Len(q0) + 1, Len(q1)) ELSE <<>>

\* the messages this step enqueued on the channel of connection c
Enqueued(c) == NewMsgs(chan[c].queue, chan'[c].queue)

\* the last message of a kind in a sequence, or a default
LastOf(msgs, kind, default) ==
    LET hits == {i \in 1..Len(msgs) : msgs[i].kind = kind}
    IN  IF hits = {} THEN default
        ELSE msgs[CHOOSE i \in hits : \A j \in hits : j <= i]

\* lastStories follows the step; a closed connection has no view
Hist ==
    lastStories' = [c \in Conns |->
        IF conns'[c].pc = "closed" THEN NoMsg
        ELSE LastOf(Enqueued(c), "stories",
                    IF conns[c].pc = "closed" THEN NoMsg ELSE lastStories[c])]

NoHist == UNCHANGED lastStories

----------------------------------------------------------------------------
(* Inputs.                                                                  *)

VoteInputs == {Value(5), Coffee, Hidden}
NameInputs == {"n"}
StoryItems == {[story_url |-> "u", story_description |-> "d"]}
StoryWords == {"remove_story", "finish", "active_story"}
Words == {"user", "stories", "vote"} \cup StoryWords

RECURSIVE SeqsUpTo(_, _)
SeqsUpTo(S, n) ==
    IF n = 0 THEN {<<>>}
    ELSE LET shorter == SeqsUpTo(S, n - 1)
         IN  shorter \cup {Append(q, x) : q \in shorter, x \in S}

\* the frames a client may send while uu story uuids are in use
Frames(uu) ==
    {Bare("ping", TRUE), Bare("binary", TRUE), Bare("other", TRUE)}
    \cup {Bare(w, FALSE) : w \in Words}
    \cup {UserFrame(n, role) : n \in NameInputs, role \in UserRole}
    \cup {StoriesFrame(items) :
            items \in {q \in SeqsUpTo(StoryItems, MaxBatch) : uu + Len(q) <= MaxStoryUuid}}
    \cup {StoryFrame(w, sid) : w \in StoryWords, sid \in 1..MaxStoryUuid}
    \cup {VoteFrame(sid, v) : sid \in 1..MaxStoryUuid, v \in VoteInputs}

\* the forwarders have caught up to within MaxBacklog messages
Quiet == \A c \in Conns : Len(chan[c].queue) <= MaxBacklog

Init ==
    /\ rooms = EmptyMap
    /\ conns = [c \in Conns |-> ConnClosed]
    /\ chan = [c \in Conns |-> [open |-> FALSE, queue |-> <<>>]]
    /\ inbox = [c \in Conns |-> <<>>]
    /\ lock = 0
    /\ storyUuids = 0
    /\ userUuids = 0
    /\ lastStories = [c \in Conns |-> NoMsg]
    /\ origin = [c \in Conns |-> <<>>]

\* one room, every frame, handlers as single steps
Next ==
    \/ \E c \in Conns : Forward(c) /\ NoHist
    \/ \E c \in Conns, u \in TwoUsers :
          Quiet /\ AdmitConnection(c, u, "r1") /\ NoHist
    \/ \E c \in Conns : \E m \in Frames(storyUuids) :
          Quiet /\ ClientMsg(c, m) /\ NoHist
    \/ \E c \in Conns : Quiet /\ RetireConnection(c) /\ NoHist

Spec == Init /\ [][Next]_vars

\* three user tokens in one room, the frames that decide what a view shows
VoteFrames(uu) ==
    {UserFrame("", role) : role \in UserRole}
    \cup {StoriesFrame(<<x>>) : x \in {y \in StoryItems : uu < MaxStoryUuid}}
    \cup {VoteFrame(sid, v) : sid \in 1..MaxStoryUuid, v \in {Value(5), Coffee}}
    \cup {StoryFrame("finish", sid) : sid \in 1..MaxStoryUuid}

NextVotes ==
    \/ \E c \in Conns : Forward(c) /\ NoHist
    \/ \E c \in Conns, u \in UserIds :
          Quiet /\ AdmitConnection(c, u, "r1") /\ NoHist
    \/ \E c \in Conns : \E m \in VoteFrames(storyUuids) :
          Quiet /\ ClientMsg(c, m) /\ NoHist
    \/ \E c \in Conns : Quiet /\ RetireConnection(c) /\ NoHist

SpecVotes == Init /\ [][NextVotes]_vars

\* two user tokens, the same frames, each connection's latest Stories view kept
NextView ==
    \/ \E c \in Conns : Forward(c) /\ Hist
    \/ \E c \in Conns, u \in TwoUsers :
          Quiet /\ AdmitConnection(c, u, "r1") /\ Hist
    \/ \E c \in Conns : \E m \in VoteFrames(storyUuids) :
          Quiet /\ ClientMsg(c, m) /\ Hist
    \/ \E c \in Conns : Quiet /\ RetireConnection(c) /\ Hist

SpecView == Init /\ [][NextView]_vars

\* two user tokens, the same frames, and forwarders that can fail
NextFail ==
    \/ \E c \in Conns : Forward(c) /\ NoHist
    \/ \E c \in Conns : ForwarderFail(c) /\ NoHist
    \/ \E c \in Conns, u \in TwoUsers :
          Quiet /\ AdmitConnection(c, u, "r1") /\ NoHist
    \/ \E c \in Conns : \E m \in VoteFrames(storyUuids) :
          Quiet /\ ClientMsg(c, m) /\ NoHist
    \/ \E c \in Conns : Quiet /\ RetireConnection(c) /\ NoHist

SpecFail == Init /\ [][NextFail]_vars

\* one frame of each kind of broadcast, the vote naming the one story uuid
RoomFrames(uu) ==
    {UserFrame("", "Watcher"), VoteFrame(1, Value(5))}
    \cup {StoriesFrame(<<x>>) : x \in {y \in StoryItems : uu < MaxStoryUuid}}

\* two rooms, two user tokens that may each be in both rooms
NextRooms ==
    \/ \E c \in Conns : Forward(c) /\ NoHist
    \/ \E c \in Conns, u \in TwoUsers, r \in RoomIds :
          Quiet /\ AdmitConnection(c, u, r) /\ NoHist
    \/ \E c \in Conns : \E m \in RoomFrames(storyUuids) :
          Quiet /\ ClientMsg(c, m) /\ NoHist
    \/ \E c \in Conns : Quiet /\ RetireConnection(c) /\ NoHist

SpecRooms == Init /\ [][NextRooms]_vars

----------------------------------------------------------------------------
(* The same handlers step by step: a task waits for the registry write     *)
(* lock, mutates the room under it, broadcasts, and releases it.  Frames   *)
(* arrive on a connection's stream while its task is busy.                 *)

\* a lock that grants every request at once
WriteLockFree_unguarded == TRUE

\* rooms.write().await returns once no other guard is held
WriteLockFree == lock = 0

\* a frame arrives on the stream of connection c (it is numbered for the history)
Arrive(c, m) ==
    /\ conns[c].pc # "closed"
    /\ ~conns[c].eof
    /\ inbox' = [inbox EXCEPT ![c] = Append(@, [n |-> conns[c].narr + 1, frame |-> m])]
    /\ conns' = [conns EXCEPT ![c].narr = @ + 1]
    /\ UNCHANGED <<rooms, chan, lock, storyUuids, userUuids, origin>>

\* the stream of connection c ends or fails: nothing arrives after that
StreamEnd(c) ==
    /\ conns[c].pc # "closed"
    /\ ~conns[c].eof
    /\ conns' = [conns EXCEPT ![c].eof = TRUE]
    /\ UNCHANGED <<rooms, chan, inbox, lock, storyUuids, userUuids, origin>>

\* ws_handler starts client_connection, which waits for the lock (line 402)
Connect(c, user_id, room_id) ==
    /\ conns[c].pc = "closed"
    /\ chan[c].queue = <<>>
    /\ conns' = [conns EXCEPT ![c] =
                    [ConnClosed EXCEPT !.pc = "connect", !.user_id = user_id,
                                       !.room_id = room_id]]
    /\ inbox' = [inbox EXCEPT ![c] = <<>>]
    /\ UNCHANGED <<rooms, chan, lock, storyUuids, userUuids, origin>>

\* the pending rooms.write().await of lines 402, 295 and 448 is granted
AcquireWrite(c) ==
    /\ conns[c].pc \in {"connect", "msg", "retire"}
    /\ WriteLockFree
    /\ lock' = c
    /\ conns' = [conns EXCEPT ![c].pc =
                    CASE @ = "connect" -> "admit"
                      [] @ = "msg" -> "apply"
                      [] OTHER -> "detach"]
    /\ UNCHANGED <<rooms, chan, inbox, storyUuids, userUuids, origin>>

\* lines 403-426 under the lock
Admit(c) ==
    /\ conns[c].pc = "admit"
    /\ LET a == admit(rooms, c, conns[c].user_id, conns[c].room_id, userUuids)
       IN  /\ rooms' = a.rooms
           /\ userUuids' = a.uuids
           /\ conns' = [conns EXCEPT ![c].pc = "sync",
                                     ![c].pub_user_uuid = a.pub_user_uuid,
                                     ![c].snap = a.rooms]
    /\ chan' = [chan EXCEPT ![c] = NewChannel]
    /\ origin' = [origin EXCEPT ![c] = <<>>]
    /\ UNCHANGED <<inbox, lock, storyUuids>>

\* every send of a broadcast to this room can proceed
CanBroadcast(room_id) ==
    room_id \in DOMAIN rooms =>
        \A d \in Conns : Attached(rooms[room_id], d) # {} => SendReady(chan[d])

\* origin after a step of connection c that took the channels to ch1
Stamp(c, ch1) ==
    [d \in Conns |->
        origin[d] \o [i \in 1..Len(NewMsgs(chan[d].queue, ch1[d].queue)) |->
                         <<c, conns[c].nread>>]]

\* lines 430-434 under the lock, which drop(locked) releases
Sync(c) ==
    /\ conns[c].pc = "sync"
    /\ CanBroadcast(conns[c].room_id)
    /\ LET ch1 == initial_sync(rooms[conns[c].room_id], conns[c].user_id, chan)
       IN  chan' = ch1 /\ origin' = Stamp(c, ch1)
    /\ lock' = 0
    /\ conns' = [conns EXCEPT ![c].pc = "read", ![c].snap = EmptyMap]
    /\ UNCHANGED <<rooms, inbox, storyUuids, userUuids>>

\* the read loop takes the next frame of the stream (line 436); client_msg
\* returns at once for a frame that is no text or a ping (lines 286-293)
\* a stream that yields the newest buffered frame
NextFrame_newest(q) == Len(q)

\* the position in the stream's buffer of the frame next() yields
NextFrame(q) == 1

Without(q, i) == SubSeq(q, 1, i - 1) \o SubSeq(q, i + 1, Len(q))

ReadFrame(c) ==
    /\ conns[c].pc = "read"
    /\ inbox[c] # <<>>
    /\ LET f == inbox[c][NextFrame(inbox[c])]
       IN  /\ inbox' = [inbox EXCEPT ![c] = Without(@, NextFrame(@))]
           /\ conns' = [conns EXCEPT
                          ![c].nread = f.n,
                          ![c].pc = IF SkipsLock(f.frame) THEN "read" ELSE "msg",
                          ![c].cur = IF SkipsLock(f.frame) THEN NoFrame ELSE f.frame]
    /\ UNCHANGED <<rooms, chan, lock, storyUuids, userUuids, origin>>

\* the mutation of client_msg under the lock (lines 295-397, up to the send)
Apply(c) ==
    /\ conns[c].pc = "apply"
    /\ LET r == conns[c].room_id
       IN  IF r \notin DOMAIN rooms
           THEN /\ conns' = [conns EXCEPT ![c].pc = "bcast", ![c].bcast = "none",
                                          ![c].snap = rooms]
                /\ UNCHANGED <<rooms, storyUuids>>
           ELSE LET res == client_msg(rooms[r], conns[c].user_id,
                                      conns[c].pub_user_uuid, conns[c].cur,
                                      storyUuids)
                    rs == [rooms EXCEPT ![r] = res.room]
                IN  /\ rooms' = rs
                    /\ storyUuids' = res.uuids
                    /\ conns' = [conns EXCEPT ![c].pc = "bcast",
                                              ![c].bcast = res.bcast,
                                              ![c].snap = rs]
    /\ UNCHANGED <<chan, inbox, lock, userUuids, origin>>

\* the send that ends the handler, and the end of the if-let that held the guard
BroadcastRelease(c) ==
    /\ conns[c].pc = "bcast"
    /\ CanBroadcast(conns[c].room_id)
    /\ LET r == conns[c].room_id
           ch1 == IF r \in DOMAIN rooms
                  THEN Broadcast(conns[c].bcast, rooms[r], chan) ELSE chan
       IN  chan' = ch1 /\ origin' = Stamp(c, ch1)
    /\ lock' = 0
    /\ conns' = [conns EXCEPT ![c].pc = "read", ![c].cur = NoFrame,
                              ![c].bcast = "none", ![c].snap = EmptyMap]
    /\ UNCHANGED <<rooms, inbox, storyUuids, userUuids>>

\* the read loop ends with the stream (lines 436-446)
ReadEnd(c) ==
    /\ conns[c].pc = "read"
    /\ inbox[c] = <<>>
    /\ conns[c].eof
    /\ conns' = [conns EXCEPT ![c].pc = "retire"]
    /\ UNCHANGED <<rooms, chan, inbox, lock, storyUuids, userUuids, origin>>

\* lines 449-452 under the lock
Detach(c) ==
    /\ conns[c].pc = "detach"
    /\ LET rs == retire(rooms, conns[c].user_id, conns[c].room_id)
       IN  /\ rooms' = rs
           /\ conns' = [conns EXCEPT ![c].pc = "notify", ![c].snap = rs]
    /\ UNCHANGED <<chan, inbox, lock, storyUuids, userUuids, origin>>

\* line 454 under the lock, then the task ends
Notify(c) ==
    /\ conns[c].pc = "notify"
    /\ CanBroadcast(conns[c].room_id)
    /\ LET r == conns[c].room_id
           ch1 == IF r \in DOMAIN rooms
                  THEN send_users_update_message(rooms[r], chan) ELSE chan
       IN  chan' = ch1 /\ origin' = Stamp(c, ch1)
    /\ lock' = 0
    /\ conns' = [conns EXCEPT ![c] = ConnClosed]
    /\ inbox' = [inbox EXCEPT ![c] = <<>>]
    /\ UNCHANGED <<rooms, storyUuids, userUuids>>

\* the frames of the step-by-step specifications
ConcFrames(uu) ==
    {Bare("ping", TRUE), VoteFrame(1, Value(5))}
    \cup {StoriesFrame(<<x>>) : x \in {y \in StoryItems : uu < MaxStoryUuid}}

\* no task of this user token is or was in this room
FirstVisit(user_id, room_id) ==
    /\ room_id \in DOMAIN rooms => user_id \notin DOMAIN rooms[room_id].users
    /\ \A c \in Conns : conns[c].pc = "closed"
                          \/ <<conns[c].user_id, conns[c].room_id>> # <<user_id, room_id>>

\* the connection whose forwarder never runs (a stalled client)
Stalled == {2}

NextConc ==
    \/ \E c \in Conns, u \in TwoUsers, r \in RoomIds :
          FirstVisit(u, r) /\ Connect(c, u, r) /\ NoHist
    \/ \E c \in Conns : \E m \in ConcFrames(storyUuids) :
          conns[c].narr < MaxFrames /\ Arrive(c, m) /\ NoHist
    \/ \E c \in Conns : StreamEnd(c) /\ NoHist
    \/ \E c \in Conns : AcquireWrite(c) /\ NoHist
    \/ \E c \in Conns : Admit(c) /\ NoHist
    \/ \E c \in Conns : Sync(c) /\ NoHist
    \/ \E c \in Conns : ReadFrame(c) /\ NoHist
    \/ \E c \in Conns : Apply(c) /\ NoHist
    \/ \E c \in Conns : BroadcastRelease(c) /\ NoHist
    \/ \E c \in Conns : ReadEnd(c) /\ NoHist
    \/ \E c \in Conns : Detach(c) /\ NoHist
    \/ \E c \in Conns : Notify(c) /\ NoHist

SpecConc == Init /\ [][NextConc]_vars

\* fewer frames, and forwarders: all run but the stalled client's
NextLive ==
    \/ \E c \in Conns, u \in TwoUsers :
          FirstVisit(u, "r1") /\ Connect(c, u, "r1") /\ NoHist
    \/ \E c \in Conns : \E m \in ConcFrames(storyUuids) \ {Bare("ping", TRUE)} :
          conns[c].narr < MaxLiveFrames /\ Arrive(c, m) /\ NoHist
    \/ \E c \in Conns : StreamEnd(c) /\ NoHist
    \/ \E c \in Conns : AcquireWrite(c) /\ NoHist
    \/ \E c \in Conns : Admit(c) /\ NoHist
    \/ \E c \in Conns : Sync(c) /\ NoHist
    \/ \E c \in Conns : ReadFrame(c) /\ NoHist
    \/ \E c \in Conns : Apply(c) /\ NoHist
    \/ \E c \in Conns : BroadcastRelease(c) /\ NoHist
    \/ \E c \in Conns : ReadEnd(c) /\ NoHist
    \/ \E c \in Conns : Detach(c) /\ NoHist
    \/ \E c \in Conns : Notify(c) /\ NoHist
    \/ \E c \in Conns \ Stalled : Forward(c) /\ NoHist

\* the tokio RwLock grants waiting writers in turn; a task that can run does
Fairness ==
    \A c \in Conns :
        /\ SF_vars(AcquireWrite(c) /\ NoHist)
        /\ WF_vars(Admit(c) /\ NoHist)
        /\ WF_vars(Sync(c) /\ NoHist)
        /\ WF_vars(ReadFrame(c) /\ NoHist)
        /\ WF_vars(Apply(c) /\ NoHist)
        /\ WF_vars(BroadcastRelease(c) /\ NoHist)
        /\ WF_vars(ReadEnd(c) /\ NoHist)
        /\ WF_vars(Detach(c) /\ NoHist)
        /\ WF_vars(Notify(c) /\ NoHist)

SpecLive == Init /\ [][NextLive]_vars /\ Fairness

----------------------------------------------------------------------------
(* Properties.                                                             *)

Range(q) == {q[i] : i \in 1..Len(q)}

\* the user record a channel is attached to, as <<room id, user token>>
Members(rs, c) ==
    {<<r, k>> \in (DOMAIN rs) \X UserIds : k \in DOMAIN rs[r].users
                                          /\ rs[r].users[k].sender = c}

\* no active Voter of the room lacks an entry in the story's votes
VotingComplete(story, users) ==
    \A k \in DOMAIN users :
        (users[k].role = "Voter" /\ users[k].is_active)
            => users[k].pub_user_uuid \in DOMAIN story.votes

\* a rendered vote map follows the visibility rule for this observer
RenderedRight(shown, story, users, pub) ==
    IF story.state = "Finished" \/ VotingComplete(story, users)
    THEN shown = story.votes
    ELSE /\ DOMAIN shown = DOMAIN story.votes
         /\ \A k \in DOMAIN shown :
               shown[k] = IF k = pub THEN story.votes[k] ELSE Hidden

\* C1: every Stories view a step enqueues on a channel lists the room's stories
\* as they are after the step, and renders each story's votes for the member
\* the channel is attached to: unchanged if the story is Finished or no active
\* Voter lacks an entry, else the same keys with the member's own value and
\* Hidden for every other entry.
C1_StoriesViewRendersPolicy ==
    [][\A c \in Conns : \A msg \in Range(Enqueued(c)) :
          msg.kind = "stories" =>
             /\ Members(rooms', c) # {}
             /\ \A mb \in Members(rooms', c) :
                   LET room == rooms'[mb[1]]
                       me == room.users[mb[2]].pub_user_uuid
                   IN  /\ Len(msg.stories) = Len(room.stories)
                       /\ \A i \in 1..Len(room.stories) :
                             /\ msg.stories[i].story_uuid = room.stories[i].story_uuid
                             /\ RenderedRight(msg.stories[i].votes,
                                              room.stories[i], room.users, me)]_vars

\* C1 witness: a queued Stories view of a Voting story that shows its
\* recipient, a Watcher, the vote of another member, in a room where a Voter
\* who is not active has no entry
C1_Witness ==
    \E c \in Conns : \E msg \in Range(chan[c].queue) :
        /\ msg.kind = "stories"
        /\ \E mb \in Members(rooms, c) :
              LET room == rooms[mb[1]]
                  me == room.users[mb[2]]
              IN  /\ me.role = "Watcher"
                  /\ \E i \in 1..Len(room.stories) :
                        /\ Len(msg.stories) = Len(room.stories)
                        /\ room.stories[i].state = "Voting"
                        /\ \E k \in DOMAIN msg.stories[i].votes :
                              /\ k # me.pub_user_uuid
                              /\ msg.stories[i].votes[k] = Value(5)
                        /\ \E k \in DOMAIN room.users :
                              /\ room.users[k].role = "Voter"
                              /\ ~room.users[k].is_active
                              /\ room.users[k].pub_user_uuid
                                    \notin DOMAIN room.stories[i].votes

\* C2: whenever no active Voter lacks an entry on a Voting story, the latest
\* Stories view enqueued for every connected member (a connection in its read
\* loop whose channel is the sender of its user record) shows that story's
\* stored votes.
C2_AutoRevealSeen ==
    \A c \in Conns :
        (conns[c].pc = "read" /\ Members(rooms, c) # {}) =>
           LET room == rooms[conns[c].room_id]
               view == lastStories[c]
           IN  /\ view.kind = "stories"
               /\ Len(view.stories) = Len(room.stories)
               /\ \A i \in 1..Len(room.stories) :
                     (room.stories[i].state = "Voting"
                      /\ VotingComplete(room.stories[i], room.users))
                        => view.stories[i].votes = room.stories[i].votes

\* the room of a connection, and the story a frame names in it (0: none)
RoomOf(c) == rooms[conns[c].room_id]
Target(c, m) == FindStory(RoomOf(c).stories, m.story_uuid)

\* C3: a Finished story never returns to Voting; a vote command on a Finished
\* story changes no room and enqueues nothing; every Stories view enqueued
\* shows the stored votes of a Finished story, whoever the recipient is.
C3_FinishMonotone ==
    [][/\ \A r \in DOMAIN rooms : \A i \in 1..Len(rooms[r].stories) :
             rooms[r].stories[i].state = "Finished" =>
                \A j \in 1..Len(rooms'[r].stories) :
                   rooms'[r].stories[j].story_uuid = rooms[r].stories[i].story_uuid
                      => rooms'[r].stories[j].state = "Finished"
       /\ \A c \in Conns : \A m \in {f \in Frames(storyUuids) : f.word = "vote"} :
             (/\ conns[c].pc = "read"
              /\ Target(c, m) # 0
              /\ RoomOf(c).stories[Target(c, m)].state = "Finished"
              /\ ClientMsg(c, m))
                => UNCHANGED <<rooms, chan>>
       /\ \A c \in Conns : \A msg \in Range(Enqueued(c)) :
             msg.kind = "stories" =>
                \A mb \in Members(rooms', c) :
                   \A i \in 1..Len(rooms'[mb[1]].stories) :
                      rooms'[mb[1]].stories[i].state = "Finished" =>
                         msg.stories[i].votes = rooms'[mb[1]].stories[i].votes]_vars

\* C3 witness: a Finished story with a vote, one active Voter without a vote,
\* and a queued view of it
C3_Witness ==
    \E r \in DOMAIN rooms : \E i \in 1..Len(rooms[r].stories) :
        /\ rooms[r].stories[i].state = "Finished"
        /\ rooms[r].stories[i].votes # EmptyMap
        /\ ~VotingComplete(rooms[r].stories[i], rooms[r].users)
        /\ \E c \in Conns : \E msg \in Range(chan[c].queue) :
              /\ msg.kind = "stories"
              /\ Members(rooms, c) # {}
              /\ msg.stories[i].votes = rooms[r].stories[i].votes

\* C4: a remove_story, finish or active_story frame, whatever its payload,
\* from a connection whose pub_user_uuid is not the room's owner changes no
\* room and enqueues nothing.
C4_OwnerExclusive ==
    [][\A c \in Conns : \A m \in {f \in Frames(storyUuids) : f.word \in StoryWords} :
          (/\ conns[c].pc = "read"
           /\ RoomOf(c).owner # conns[c].pub_user_uuid
           /\ ClientMsg(c, m))
             => UNCHANGED <<rooms, chan>>]_vars

\* C4 witness: a connected non-owner in a room with a Voting story
C4_Witness ==
    \E c \in Conns :
        /\ conns[c].pc = "read"
        /\ RoomOf(c).owner # conns[c].pub_user_uuid
        /\ \E i \in 1..Len(RoomOf(c).stories) : RoomOf(c).stories[i].state = "Voting"
        /\ RoomOf(c).active_story = NoneId

\* C5: a user record keeps the pub_user_uuid of its first admission, every
\* connection of a user token holds that value, and two user tokens of a
\* room never share one.
C5_IdentityStable ==
    [][/\ \A r \in DOMAIN rooms : \A k \in DOMAIN rooms[r].users :
             /\ r \in DOMAIN rooms'
             /\ k \in DOMAIN rooms'[r].users
             /\ rooms'[r].users[k].pub_user_uuid = rooms[r].users[k].pub_user_uuid
       /\ \A r \in DOMAIN rooms' : \A k1, k2 \in DOMAIN rooms'[r].users :
             k1 # k2 => rooms'[r].users[k1].pub_user_uuid
                            # rooms'[r].users[k2].pub_user_uuid
       /\ \A c \in Conns :
             conns'[c].pc = "read" =>
                conns'[c].pub_user_uuid =
                   rooms'[conns'[c].room_id].users[conns'[c].user_id].pub_user_uuid]_vars

\* C5 witness: two connections of one user token in a room that holds a
\* second user
C5_Witness ==
    /\ conns[1].pc = "read" /\ conns[2].pc = "read"
    /\ conns[1].user_id = conns[2].user_id
    /\ conns[1].room_id = conns[2].room_id
    /\ conns[1].pub_user_uuid = conns[2].pub_user_uuid
    /\ Cardinality(DOMAIN RoomOf(1).users) = 2

\* a room with the is_active flag and the sender of one user blanked
Masked(room, k) ==
    [room EXCEPT !.users[k].is_active = FALSE, !.users[k].sender = NoneId]

\* step of connection c: its task ends / it is admitted as a known user
Retires(c) == conns[c].pc = "read" /\ conns'[c].pc = "closed"
Readmits(c) ==
    /\ conns[c].pc = "closed" /\ conns'[c].pc = "read"
    /\ conns'[c].room_id \in DOMAIN rooms
    /\ conns'[c].user_id \in DOMAIN rooms[conns'[c].room_id].users

\* C6: retirement and re-admission of a user token change nothing in the room
\* but that user's is_active flag and sender, and the Stories view enqueued on
\* the re-admitted connection carries the user's stored vote on every Voting
\* story.
C6_ReconnectResumes ==
    [][\A c \in Conns :
          /\ Retires(c) =>
                rooms' = [rooms EXCEPT ![conns[c].room_id] =
                             Masked(@, conns[c].user_id)]
          /\ Readmits(c) =>
                LET r == conns'[c].room_id
                    k == conns'[c].user_id
                    me == rooms[r].users[k].pub_user_uuid
                IN  /\ [rooms' EXCEPT ![r] = Masked(@, k)]
                          = [rooms EXCEPT ![r] = Masked(@, k)]
                    /\ \E msg \in Range(Enqueued(c)) :
                          /\ msg.kind = "stories"
                          /\ \A i \in 1..Len(rooms[r].stories) :
                                (rooms[r].stories[i].state = "Voting"
                                 /\ me \in DOMAIN rooms[r].stories[i].votes)
                                   => /\ me \in DOMAIN msg.stories[i].votes
                                      /\ msg.stories[i].votes[me]
                                            = rooms[r].stories[i].votes[me]]_vars

\* C6 witness: a connection just admitted for a user who had voted, named
\* itself and become a Watcher before: its initial Stories view shows the vote
C6_Witness ==
    \E c \in Conns :
        /\ conns[c].pc = "read"
        /\ Len(chan[c].queue) = 3
        /\ chan[c].queue[1].kind = "config"
        /\ LET u == RoomOf(c).users[conns[c].user_id]
               msg == chan[c].queue[3]
           IN  /\ u.user_name = "n"
               /\ u.role = "Watcher"
               /\ \E i \in 1..Len(msg.stories) :
                     /\ msg.stories[i].state = "Voting"
                     /\ u.pub_user_uuid \in DOMAIN msg.stories[i].votes
                     /\ msg.stories[i].votes[u.pub_user_uuid] = Value(5)
                     /\ Cardinality(DOMAIN msg.stories[i].votes) = 2

\* C7: no stored vote map holds the value Hidden.
C7_HiddenNeverStored ==
    \A r \in DOMAIN rooms : \A i \in 1..Len(rooms[r].stories) :
        \A k \in DOMAIN rooms[r].stories[i].votes :
            rooms[r].stories[i].votes[k] # Hidden

\* the phases of a task between rooms.write().await and the guard's drop
LockedPhases == {"admit", "sync", "apply", "bcast", "detach", "notify"}
SendPhases == {"sync", "bcast", "notify"}

\* the task in a locked phase is the one lock holder, and from its mutation
\* to its sends the registry is what that mutation produced
HolderAlone ==
    /\ \A c \in Conns : conns[c].pc \in LockedPhases <=> lock = c
    /\ \A c \in Conns : conns[c].pc \in SendPhases => rooms = conns[c].snap

\* what the sends of the lock holder c enqueue, rendered from registry rs
SendsOf(c, rs) ==
    LET r == conns[c].room_id
    IN  CASE conns[c].pc = "sync" ->
               initial_sync(rs[r], conns[c].user_id, chan)
          [] conns[c].pc = "bcast" /\ r \in DOMAIN rs ->
               Broadcast(conns[c].bcast, rs[r], chan)
          [] conns[c].pc = "notify" /\ r \in DOMAIN rs ->
               send_users_update_message(rs[r], chan)
          [] OTHER -> chan

\* C8: at most one task is between acquiring and releasing the write lock;
\* the registry is read or written only by that task; every step that
\* enqueues messages is the lock holder's send, and the messages render the
\* registry exactly as the holder's own mutation left it.
C8_MutationBroadcastAtomic ==
    [][/\ HolderAlone /\ HolderAlone'
       /\ rooms' # rooms => lock # 0 /\ lock' = lock
       /\ (\E d \in Conns : Enqueued(d) # <<>>) =>
             \E c \in Conns :
                /\ lock = c
                /\ conns[c].pc \in SendPhases
                /\ chan' = SendsOf(c, conns[c].snap)]_vars

\* C8 witness: a task between its mutation and its broadcast, holding a vote
\* it has stored, while the other connection's task waits for the lock with a
\* command of its own
C8_Witness ==
    \E c, d \in Conns :
        /\ c # d
        /\ conns[c].pc = "bcast" /\ conns[c].bcast = "stories"
        /\ conns[c].cur.word = "vote"
        /\ conns[d].pc = "msg"
        /\ conns[d].room_id = conns[c].room_id

\* the entries of one sender in a queue's history carry frame numbers that
\* never fall
InSenderOrder(q) ==
    \A i, j \in 1..Len(q) :
        (i < j /\ q[i][1] = q[j][1]) => q[i][2] <= q[j][2]

\* C9: the frames waiting on a connection are the ones that arrived after the
\* frame last taken, in arrival order; a frame is taken only when the command
\* before it has released the lock after its broadcast; and on every
\* connection's queue the messages of one sender's commands lie in the order
\* the commands arrived.
C9_PerConnectionOrder ==
    [][/\ \A c \in Conns :
             /\ \A i \in 1..Len(inbox'[c]) :
                   /\ inbox'[c][i].n > conns'[c].nread
                   /\ \A j \in 1..Len(inbox'[c]) :
                         i < j => inbox'[c][i].n < inbox'[c][j].n
             /\ (/\ conns[c].pc # "closed" /\ conns'[c].pc # "closed"
                 /\ conns'[c].nread # conns[c].nread) =>
                   /\ conns[c].pc = "read" /\ conns[c].cur = NoFrame
                   /\ lock # c
                   /\ conns'[c].nread > conns[c].nread
       /\ \A d \in Conns : InSenderOrder(origin'[d])]_vars

\* C9 witness: the queue of one connection holds the broadcasts of the first
\* and of the second command of the other connection
C9_Witness ==
    \E c, d \in Conns :
        /\ c # d
        /\ \E i, j \in 1..Len(origin[d]) :
              /\ i < j
              /\ origin[d][i] = <<c, 1>>
              /\ origin[d][j] = <<c, 2>>

\* a connection has a frame to take or a command under way
Pending(c) == inbox[c] # <<>> \/ conns[c].pc \in {"msg", "apply", "bcast"}

\* C10: with the forwarder of one connection never running, every task that
\* holds the write lock releases it, and every connection's pending command
\* is applied and broadcast.
C10_SlowClientBlocksNobody ==
    /\ \A c \in Conns : (lock = c) ~> (lock # c)
    /\ \A c \in Conns : Pending(c) ~> ~Pending(c)

\* C10 witness: the stalled connection's queue holds its whole initial sync
\* and more, and the other connection's command is at its broadcast
C10_Witness ==
    \E s \in Stalled : \E c \in Conns \ Stalled :
        /\ Len(chan[s].queue) > 3
        /\ conns[s].pc = "read"
        /\ conns[c].pc = "bcast" /\ conns[c].bcast = "stories"
        /\ conns[c].room_id = conns[s].room_id
        /\ Members(rooms, s) # {}

\* the decodable frames of connection c that name a story its room lacks
Misses(c, words) ==
    {f \in Frames(storyUuids) : f.word \in words /\ f.ok /\ Target(c, f) = 0}

\* C11 as stated: a decodable remove_story, vote, finish or active_story frame
\* naming no story of the room changes no room and enqueues nothing.
C11_EveryMissIsNoOp ==
    [][\A c \in Conns :
          conns[c].pc = "read" =>
             \A m \in Misses(c, {"remove_story", "vote", "finish", "active_story"}) :
                ClientMsg(c, m) => UNCHANGED <<rooms, chan>>]_vars

\* C11: the room of a connection in its read loop exists; a decodable
\* remove_story, vote or finish frame naming no story of the room changes no
\* room and enqueues nothing; an active_story frame of the owner naming no
\* story sets active_story to the named uuid, changes nothing else and
\* enqueues a Stories view on every open attached channel of the room.
C11_ReferentialMiss ==
    [][\A c \in Conns :
          conns[c].pc = "read" =>
             /\ conns[c].room_id \in DOMAIN rooms
             /\ \A m \in Misses(c, {"remove_story", "vote", "finish"}) :
                   ClientMsg(c, m) => UNCHANGED <<rooms, chan>>
             /\ \A m \in Misses(c, {"active_story"}) :
                   (RoomOf(c).owner = conns[c].pub_user_uuid /\ ClientMsg(c, m)) =>
                      /\ rooms' = [rooms EXCEPT
                                     ![conns[c].room_id].active_story = m.story_uuid]
                      /\ \A d \in Conns :
                            (Members(rooms, d) # {} /\ chan[d].open) =>
                               /\ Len(Enqueued(d)) = 1
                               /\ Enqueued(d)[1].kind = "stories"
                               /\ Enqueued(d)[1].active_story = m.story_uuid]_vars

\* C11 witness: the owner is connected, the room's one story was removed, and
\* active_story names a uuid no story of the room has
C11_Witness ==
    \E c \in Conns :
        /\ conns[c].pc = "read"
        /\ RoomOf(c).owner = conns[c].pub_user_uuid
        /\ storyUuids = 1 /\ RoomOf(c).stories = <<>>
        /\ RoomOf(c).active_story = 1

\* frames client_msg discards: no text, a ping, no known command word, or a
\* payload serde_json rejects
Discarded(uu) ==
    {f \in Frames(uu) : f.word \in {"binary", "ping", "other"} \/ ~f.ok}

\* C12: a frame that is no text, a ping, has no known command word or has a
\* payload that does not decode changes no room, enqueues nothing, uses no
\* uuid, and leaves its connection in the read loop, where every frame can
\* still be handled.
C12_MalformedInputDiscarded ==
    [][\A c \in Conns : \A m \in Discarded(storyUuids) :
          (conns[c].pc = "read" /\ ClientMsg(c, m)) =>
             /\ UNCHANGED <<rooms, chan, storyUuids, userUuids>>
             /\ conns'[c] = conns[c]
             /\ conns'[c].pc = "read"]_vars

\* C12 witness: the owner and a second member are connected with empty
\* queues in a room with a Voting story, where any send or change would show
C12_Witness ==
    /\ \A c \in Conns : conns[c].pc = "read" /\ chan[c].queue = <<>>
                          /\ Members(rooms, c) # {}
    /\ conns[1].room_id = conns[2].room_id
    /\ RoomOf(1).owner = conns[1].pub_user_uuid
    /\ \E i \in 1..Len(RoomOf(1).stories) : RoomOf(1).stories[i].state = "Voting"

\* connection d is in its read loop and is the sender of its user record: no
\* connection of that user token was admitted to the room after it
Latest(rs, cs, d) ==
    /\ cs[d].pc = "read"
    /\ cs[d].room_id \in DOMAIN rs
    /\ cs[d].user_id \in DOMAIN rs[cs[d].room_id].users
    /\ rs[cs[d].room_id].users[cs[d].user_id].sender = d

\* the step admits connection e for the user token and room of connection d
Supersedes(e, d) ==
    /\ conns[e].pc = "closed" /\ conns'[e].pc = "read"
    /\ conns'[e].user_id = conns[d].user_id
    /\ conns'[e].room_id = conns[d].room_id

\* C13: a user's most recently admitted connection stays the sender of the
\* user record, with is_active true, for as long as that connection has not
\* retired and no later connection of the user token is admitted to the room.
C13_LatestConnectionStaysAttached ==
    [][\A d \in Conns :
          (/\ Latest(rooms, conns, d) /\ conns'[d].pc = "read"
           /\ \A e \in Conns \ {d} : ~Supersedes(e, d)) =>
             /\ Latest(rooms', conns', d)
             /\ rooms'[conns[d].room_id].users[conns[d].user_id].is_active]_vars

\* the room with its user tokens renamed by the permutation p of UserIds
Renamed(room, p) ==
    [room EXCEPT !.users =
        [k2 \in {p[k] : k \in DOMAIN room.users} |->
            LET k == CHOOSE x \in DOMAIN room.users : p[x] = k2
            IN  [room.users[k] EXCEPT !.user_uuid = k2]]]

\* the three views of a room are the same whatever tokens its users hold
TokenBlind ==
    \A r \in DOMAIN rooms : \A k \in DOMAIN rooms[r].users :
        \A p \in Permutations(UserIds) :
            LET room == rooms[r]
                other == Renamed(room, p)
            IN  /\ UsersUpdateMessage(other, other.users[p[k]])
                      = UsersUpdateMessage(room, room.users[k])
                /\ StoriesUpdateMessage(other, other.users[p[k]])
                      = StoriesUpdateMessage(room, room.users[k])
                /\ RoomConfigMessage(other.users[p[k]], other.owner)
                      = RoomConfigMessage(room.users[k], room.owner)

PubIds(room) == {room.users[k].pub_user_uuid : k \in DOMAIN room.users}

\* the user identifiers an outbound message carries
IdsIn(msg) ==
    CASE msg.kind = "config" -> {msg.owner, msg.me}
      [] msg.kind = "users" -> {u.pub_user_uuid : u \in msg.users}
      [] msg.kind = "stories" ->
            UNION {DOMAIN msg.stories[i].votes : i \in 1..Len(msg.stories)}
      [] OTHER -> {}

\* C14: in every registry a step produces, the views rendered for a member do
\* not depend on the user tokens, and every user identifier in an enqueued
\* message is the pub_user_uuid of a user of the recipient's room.
C14_UserTokenNotExposed ==
    [][/\ rooms' # rooms => TokenBlind'
       /\ \A c \in Conns : \A msg \in Range(Enqueued(c)) :
             \A mb \in Members(rooms', c) : IdsIn(msg) \subseteq PubIds(rooms'[mb[1]])]_vars

\* C14 witness: a queue holding a Config view, a Roster view of two users and
\* a Stories view with two vote keys
C14_Witness ==
    \E c \in Conns :
        /\ Len(chan[c].queue) = 3
        /\ Members(rooms, c) # {}
        /\ IdsIn(chan[c].queue[1]) # {}
        /\ Cardinality(IdsIn(chan[c].queue[2])) = 2
        /\ Cardinality(IdsIn(chan[c].queue[3])) = 2

\* C15: a room of the registry has a user and an owner, the owner being the
\* pub_user_uuid of one of its users; a room enters the registry with exactly
\* one user, the one being admitted, as its owner; and no step changes the
\* owner of a room that is in the registry.
C15_OwnerSetOnceAtFirstAdmission ==
    [][\A r \in DOMAIN rooms' :
          /\ rooms'[r].owner # NoneId
          /\ rooms'[r].owner \in PubIds(rooms'[r])
          /\ IF r \in DOMAIN rooms
             THEN rooms'[r].owner = rooms[r].owner
             ELSE \E c \in Conns :
                     /\ conns[c].pc = "closed" /\ conns'[c].pc = "read"
                     /\ conns'[c].room_id = r
                     /\ DOMAIN rooms'[r].users = {conns'[c].user_id}
                     /\ rooms'[r].owner = conns'[c].pub_user_uuid]_vars

\* C15 witness: the owner's record is inactive and detached, a second user is
\* connected, and the room has a story
C15_Witness ==
    \E c \in Conns :
        /\ conns[c].pc = "read"
        /\ RoomOf(c).owner # conns[c].pub_user_uuid
        /\ RoomOf(c).stories # <<>>
        /\ \E k \in DOMAIN RoomOf(c).users :
              /\ RoomOf(c).users[k].pub_user_uuid = RoomOf(c).owner
              /\ ~RoomOf(c).users[k].is_active
              /\ RoomOf(c).users[k].sender = NoneId

\* the step admits connection c
Admits(c) == conns[c].pc = "closed" /\ conns'[c].pc = "read"

\* C16: the step that admits a connection leaves on its new queue exactly the
\* Config view (the room's owner, the admitted user's pub_user_uuid), the
\* Roster view and the Stories view, in this order, rendered for the admitted
\* user from the registry after the step; on the open channel of every other
\* attached member of the room it enqueues that member's Roster view and then
\* its Stories view of the same registry, and nothing else.
C16_InitialSync ==
    [][\A c \in Conns :
          Admits(c) =>
             LET r == conns'[c].room_id
                 room == rooms'[r]
                 me == room.users[conns'[c].user_id]
             IN  /\ me.sender = c
                 /\ me.pub_user_uuid = conns'[c].pub_user_uuid
                 /\ chan'[c].queue = <<RoomConfigMessage(me, room.owner),
                                       UsersUpdateMessage(room, me),
                                       StoriesUpdateMessage(room, me)>>
                 /\ \A d \in Conns \ {c} : \A mb \in Members(rooms', d) :
                       (mb[1] = r /\ chan[d].open) =>
                          Enqueued(d) = <<UsersUpdateMessage(room, room.users[mb[2]]),
                                          StoriesUpdateMessage(room, room.users[mb[2]])>>]_vars

\* C16 witness: a connection just admitted as a second user to a room with a
\* voted story, its three views queued, and the two views of the broadcast
\* on the queue of the member who was there
C16_Witness ==
    \E c, d \in Conns :
        /\ c # d
        /\ conns[c].pc = "read" /\ conns[d].pc = "read"
        /\ conns[c].room_id = conns[d].room_id
        /\ Members(rooms, c) # {} /\ Members(rooms, d) # {}
        /\ RoomOf(c).owner = conns[d].pub_user_uuid
        /\ Len(chan[c].queue) = 3 /\ chan[c].queue[1].kind = "config"
        /\ chan[c].queue[1].me # chan[c].queue[1].owner
        /\ Len(chan[d].queue) = 2
        /\ chan[d].queue[1].kind = "users" /\ chan[d].queue[2].kind = "stories"
        /\ \E i \in 1..Len(RoomOf(c).stories) : RoomOf(c).stories[i].votes # EmptyMap

\* C17: a decodable vote frame naming a Voting story of the room changes the
\* registry in one place only, the entry of the sender's pub_user_uuid in that
\* story's votes, which becomes the submitted vote; and it enqueues one
\* Stories view of the new registry on the open channel of every attached
\* member of the room.
C17_CastVoteIntegrity ==
    [][\A c \in Conns :
          conns[c].pc = "read" =>
             \A m \in {f \in Frames(storyUuids) : f.word = "vote" /\ f.ok} :
                LET r == conns[c].room_id
                    i == Target(c, m)
                IN  (/\ i # 0
                     /\ rooms[r].stories[i].state = "Voting"
                     /\ ClientMsg(c, m)) =>
                       /\ rooms' = [rooms EXCEPT ![r].stories[i].votes =
                                       Insert(@, conns[c].pub_user_uuid, m.vote)]
                       /\ \A d \in Conns :
                             Enqueued(d) =
                                IF chan[d].open /\ Attached(rooms'[r], d) # {}
                                THEN <<StoriesUpdateMessage(rooms'[r],
                                         rooms'[r].users[CHOOSE k \in Attached(rooms'[r], d) : TRUE])>>
                                ELSE <<>>]_vars

\* C17 witness: a Voting story holds Coffee from one user and 5 from another,
\* and a Stories view of it is queued for a member
C17_Witness ==
    \E c \in Conns :
        /\ conns[c].pc = "read"
        /\ \E i \in 1..Len(RoomOf(c).stories) :
              /\ RoomOf(c).stories[i].state = "Voting"
              /\ \E k1, k2 \in DOMAIN RoomOf(c).stories[i].votes :
                    /\ RoomOf(c).stories[i].votes[k1] = Coffee
                    /\ RoomOf(c).stories[i].votes[k2] = Value(5)
              /\ \E msg \in Range(chan[c].queue) :
                    /\ msg.kind = "stories"
                    /\ Cardinality(DOMAIN msg.stories[i].votes) = 2

\* C18: no step removes a room or a user record; every Roster view a step
\* enqueues has one entry for each user record of the recipient's room after
\* the step and no other entry, each with that user's pub_user_uuid, name,
\* role and is_active flag, and is_this true on the recipient's entry alone.
C18_UsersKeptRosterComplete ==
    [][/\ \A r \in DOMAIN rooms :
             /\ r \in DOMAIN rooms'
             /\ DOMAIN rooms[r].users \subseteq DOMAIN rooms'[r].users
       /\ \A c \in Conns : \A msg \in Range(Enqueued(c)) :
             msg.kind = "users" =>
                /\ Members(rooms', c) # {}
                /\ \A mb \in Members(rooms', c) :
                      LET users == rooms'[mb[1]].users
                      IN  /\ Cardinality(msg.users) = Cardinality(DOMAIN users)
                          /\ \A k \in DOMAIN users :
                                [pub_user_uuid |-> users[k].pub_user_uuid,
                                 user_name |-> users[k].user_name,
                                 role |-> users[k].role,
                                 is_this |-> k = mb[2],
                                 is_active |-> users[k].is_active] \in msg.users]_vars

\* C18 witness: a queued Roster view of two users, one of them not active,
\* the recipient's own entry the only one with is_this
C18_Witness ==
    \E c \in Conns : \E msg \in Range(chan[c].queue) :
        /\ msg.kind = "users"
        /\ Cardinality(msg.users) = 2
        /\ \E u \in msg.users : ~u.is_active /\ ~u.is_this
        /\ \E u \in msg.users : u.is_active /\ u.is_this
        /\ \E mb \in Members(rooms, c) :
              \E k \in DOMAIN rooms[mb[1]].users : ~rooms[mb[1]].users[k].is_active

\* how many messages a step that changed the registry owes connection d
Owed(d) ==
    IF Admits(d) THEN 3
    ELSE IF \E c \in Conns : Admits(c) THEN 2
    ELSE 1

\* C19: a step enqueues nothing on a closed channel and leaves it closed,
\* unless the step admits its connection anew; a step that is no admission
\* or retirement changes no user's sender or is_active flag, whatever its
\* sends met; and a step that changes the registry enqueues its views on the
\* open channel of every attached member of the room, also when the channel
\* of another attached member is closed.
C19_DeliveryFailureLocal ==
    [][/\ \A d \in Conns :
             (~chan[d].open /\ ~Admits(d)) => chan'[d] = chan[d]
       /\ (\A c \in Conns : conns'[c].pc = conns[c].pc) =>
             \A r \in DOMAIN rooms : \A k \in DOMAIN rooms[r].users :
                /\ rooms'[r].users[k].sender = rooms[r].users[k].sender
                /\ rooms'[r].users[k].is_active = rooms[r].users[k].is_active
       /\ rooms' # rooms =>
             \A d \in Conns :
                (Members(rooms', d) # {} /\ chan'[d].open) =>
                   Len(Enqueued(d)) = Owed(d)]_vars

\* C19 witness: two members are attached, the channel of one is closed with
\* nothing queued, and a Stories view showing a vote is queued for the other
C19_Witness ==
    \E d, e \in Conns :
        /\ d # e
        /\ conns[d].pc = "read" /\ conns[e].pc = "read"
        /\ Members(rooms, d) # {} /\ Members(rooms, e) # {}
        /\ ~chan[d].open /\ chan[e].open
        /\ Len(chan[e].queue) = 1
        /\ chan[e].queue[1].kind = "stories"
        /\ \E i \in 1..Len(chan[e].queue[1].stories) :
              chan[e].queue[1].stories[i].votes # EmptyMap

\* the rooms a step created, changed or enqueued a message for
Touched ==
    {r \in DOMAIN rooms' : r \notin DOMAIN rooms \/ rooms'[r] # rooms[r]}
    \cup {mb[1] : mb \in UNION {Members(rooms', d) :
                                  d \in {x \in Conns : Enqueued(x) # <<>>}}}

\* the room a step is addressed to: that of the connection it admits or
\* retires, else that of a connection in its read loop
Addressed(r) ==
    IF \E c \in Conns : Admits(c) \/ Retires(c)
    THEN \E c \in Conns : (Admits(c) /\ conns'[c].room_id = r)
                              \/ (Retires(c) /\ conns[c].room_id = r)
    ELSE \E c \in Conns : conns[c].pc = "read" /\ conns[c].room_id = r

\* C20: every step creates, changes or enqueues for at most the one room it
\* is addressed to, and the user records of the registry, those of one user
\* token in two rooms included, have pub_user_uuid values different from one
\* another.
C20_RoomIsolation ==
    [][/\ Touched # {} => \E r \in RoomIds : Addressed(r) /\ Touched = {r}
       /\ \A r1, r2 \in DOMAIN rooms' :
             \A k1 \in DOMAIN rooms'[r1].users : \A k2 \in DOMAIN rooms'[r2].users :
                <<r1, k1>> # <<r2, k2>> =>
                   rooms'[r1].users[k1].pub_user_uuid # rooms'[r2].users[k2].pub_user_uuid]_vars

\* C20 witness: one user token is connected to both rooms; one room has a
\* voted story and a Stories view queued for its member, the other room has
\* no story and nothing queued
C20_Witness ==
    \E c, d \in Conns :
        /\ conns[c].pc = "read" /\ conns[d].pc = "read"
        /\ conns[c].user_id = conns[d].user_id
        /\ conns[c].room_id # conns[d].room_id
        /\ conns[c].pub_user_uuid # conns[d].pub_user_uuid
        /\ Members(rooms, c) # {} /\ Members(rooms, d) # {}
        /\ RoomOf(d).stories = <<>> /\ chan[d].queue = <<>>
        /\ \E i \in 1..Len(RoomOf(c).stories) : RoomOf(c).stories[i].votes # EmptyMap
        /\ \E msg \in Range(chan[c].queue) : msg.kind = "stories"

====
